---- MODULE Spec2Model ----
(***************************************************************************)
(* Model of dhis2/start_dhis2.py: the cache-or-rebuild bootstrap of a      *)
(* DHIS2 test environment.  One behaviour is a sequence of process runs    *)
(* (python start_dhis2.py) on one machine; the filesystem and the docker   *)
(* state persist between the runs, everything else is per run.             *)
(***************************************************************************)
EXTENDS Integers, Sequences, FiniteSets, TLC

VARIABLES
    files,        \* path -> "absent" | "partial" | "complete"  (local filesystem)
    dirs,         \* set of existing directories
    vol,          \* volume name -> "absent" | "empty" | "partial" | "data"
    dbVolume,     \* volume the running db service is bound to, "none" if stopped
    appUp,        \* TRUE while the web service of the composed stack is up
    DBDUMP_URL,   \* module-level locator of the running process (line 15)
    dbdump_url,   \* parameter of start_services (line 159)
    pc,           \* position of the process in start_services
    path,         \* "none" | "hit" | "miss": branch taken at line 165
    trace,        \* steps of start_services invoked so far in this run, in order
    returned,     \* steps of start_services that returned normally, in order
    calls,        \* command -> number of invocations through run()/httpx in this run
    slept,        \* poll -> seconds slept in that poll in this run
    readyAfter,   \* poll -> number of failing checks before the first succeeding one
    err,          \* exception that ended the run, "none" otherwise
    last,         \* the latest command of this run and whether it exited zero
    atStart,      \* which of the cache archive and the dump existed at process start
    runs,         \* number of processes started so far
    history       \* summaries of the finished runs, oldest first

world == <<files, dirs, vol, dbVolume, appUp>>
conf  == <<DBDUMP_URL, dbdump_url, atStart, runs, history>>
vars  == <<files, dirs, vol, dbVolume, appUp, DBDUMP_URL, dbdump_url, pc, path,
           trace, returned, calls, slept, readyAfter, err, last, atStart, runs,
           history>>

----------------------------------------------------------------------------
(* Bounds of the model *)

MaxRuns == 2

(* Program constants *)

range_start_db        == 360
range_wait_for_import == 360
range_wait_for_dhis2  == 360
sleep_seconds         == 3

----------------------------------------------------------------------------
(* Configuration and derived names (lines 14-21, 161-164) *)

DefaultUrl ==
    "https://storage.googleapis.com/hexa-public-assets/openhexa-toolbox/dhis2-databases/dhis2-db-sierra-leone-analytics_2.41.sql.gz"
ExampleUrl == "https://example/dump.sql.gz"

Locators == {DefaultUrl, ExampleUrl}

\* hashlib.md5(url.encode()).hexdigest()[:8], tabulated on the locators used.
md5_hexdigest_8(url) ==
    CASE url = DefaultUrl -> "4451c754"
      [] url = ExampleUrl -> "33ef0760"

postgres_volume_name(url) == "dhis2_" \o md5_hexdigest_8(url) \o "_postgres-data"
dbdump_dir(url) == "./db-dump_" \o md5_hexdigest_8(url)
\* Mutant: the archive name does not carry the key.
cache_fp_keyless(url) == "./cache/postgres.tar.gz"
cache_fp(url)   == "./cache/postgres-" \o md5_hexdigest_8(url) \o ".tar.gz"
cache_dir       == "./cache"
dump_fp(url)    == dbdump_dir(url) \o "/dump.sql.gz"

\* Module-level names of the process, handed to every command by run().
DBDUMP_HASH     == md5_hexdigest_8(DBDUMP_URL)
POSTGRES_VOLUME == "dhis2_" \o DBDUMP_HASH \o "_postgres-data"

Paths   == {cache_fp(u) : u \in Locators} \cup {dump_fp(u) : u \in Locators}
Volumes == {postgres_volume_name(u) : u \in Locators}

exists(p) == files[p] # "absent"

----------------------------------------------------------------------------
(* Commands and polls *)

Cmds == {"volume_create", "tar_xzf", "compose_up", "wget", "compose_down",
         "compose_up_db", "pg_isready", "compose_ps", "docker_logs",
         "compose_stop_db", "tar_czf", "http_get"}

Polls == {"start_db", "wait_for_import", "wait_for_dhis2"}

\* The environment of a poll: the check fails readyAfter times, then succeeds
\* (N and more: it does not succeed within the N checks of the poll).
ReadyAfterChoices(p, N) ==
    IF p = "start_db" THEN {0, 3, N - 1, N} ELSE {0, 1, N - 1, N}

NoCalls == [c \in Cmds |-> 0]
NoSleep == [p \in Polls |-> 0]

----------------------------------------------------------------------------
(* Helpers shared by the steps *)

\* run(cmd), lines 24-36: cmd is invoked once more; check=True turns a non-zero
\* exit into CalledProcessError.
run(cmd, ok) ==
    /\ calls' = [calls EXCEPT ![cmd] = @ + 1]
    /\ last' = [cmd |-> cmd, ok |-> ok]

\* The environment run() gives to every command, lines 29-33 (DHIS2_VERSION
\* aside): the module-level names.
run_env == [DBDUMP_URL |-> DBDUMP_URL, DBDUMP_HASH |-> DBDUMP_HASH]

\* An exception leaves start_services: the process ends with it.
raise(e) == pc' = "error" /\ err' = e

invoke(step) == trace' = Append(trace, step)
return(step) == returned' = Append(returned, step)

\* docker volume create: creating an existing volume changes nothing.
volume_create(v) == [vol EXCEPT ![v] = IF @ = "absent" THEN "empty" ELSE @]

\* The compose file (not among the sources): the db service is bound to the
\* volume named after DBDUMP_HASH of the environment that run() hands over.
compose_db_volume == POSTGRES_VOLUME

\* The compose file: `down -v` removes the stack together with its volume.
compose_down_v == [vol EXCEPT ![compose_db_volume] = "absent"]

\* The db service started on volume v: an empty volume is initialised and the
\* dump imported into it; a volume that holds anything is used as it is.
db_started(v) == [vol EXCEPT ![v] = IF @ \in {"absent", "empty"} THEN "data" ELSE @]

\* The n-th check of a poll whose environment lets the first k checks fail.
check_succeeds(n, k) == n = k + 1

\* The marker searched for at line 114.
Marker == "database system is ready to accept connections"

\* Mutant: the output is compared with the marker instead of searched for it.
equals(text, marker) == text = marker

\* `marker in text` on Python strings: marker occurs in text as a substring.
contains(text, marker) ==
    \E i \in 1..(Len(text) - Len(marker) + 1) :
        SubSeq(text, i, i + Len(marker) - 1) = marker

\* What `docker logs <id> --tail=100` returns at the n-th poll of a db container
\* whose log shows the server as ready from poll k + 1 on.
docker_logs(n, k) ==
    [stdout |-> "PostgreSQL init process complete; ready for start up.\n",
     stderr |-> IF n > k
                  THEN "LOG:  database system was shut down\n"
                       \o "LOG:  database system is ready to accept connections\n"
                  ELSE "LOG:  database system was shut down\n"]

\* Mutant: the loop makes one iteration too few.
for_range_one_short(n, ok, N) ==
    IF ok THEN "done" ELSE IF n < N - 1 THEN "again" ELSE "exhausted"

\* Mutant: `while True` in place of `for _ in range(N)`.
for_range_while_true(n, ok, N) == IF ok THEN "done" ELSE "again"

\* One iteration of `for _ in range(N)`: the n-th check returned ok.
\* "done": left the loop successfully; "again": slept, next iteration;
\* "exhausted": slept, and range(N) has no further iteration.
for_range(n, ok, N) ==
    IF ok THEN "done" ELSE IF n < N THEN "again" ELSE "exhausted"

\* sleep(3) after a failed check of poll p.
sleep(p) == slept' = [slept EXCEPT ![p] = @ + sleep_seconds]

\* The environment of poll p is fixed when its first check is made.
Environment(p, cmd, N) ==
    IF calls[cmd] = 0 THEN ReadyAfterChoices(p, N) ELSE {readyAfter[p]}

\* What is kept of a finished run: its locator and the names it derived from
\* it, its branch, how it ended and the step it ended in.
Summary == [url |-> dbdump_url, path |-> path, outcome |-> pc, err |-> err,
            last |-> IF trace = << >> THEN "none" ELSE trace[Len(trace)],
            cache |-> cache_fp(dbdump_url), dump |-> dump_fp(dbdump_url),
            volume |-> postgres_volume_name(dbdump_url)]

NoCmd == [cmd |-> "none", ok |-> TRUE]

----------------------------------------------------------------------------
(* Initial state: a fresh checkout on a machine with no docker state; the  *)
(* environment variable DBDUMP_URL names one locator for all the runs.     *)

Init ==
    /\ files = [p \in Paths |-> "absent"]
    /\ dirs = {}
    /\ vol = [v \in Volumes |-> "absent"]
    /\ dbVolume = "none"
    /\ appUp = FALSE
    /\ DBDUMP_URL \in Locators
    /\ dbdump_url = DBDUMP_URL
    /\ pc = "idle"
    /\ path = "none"
    /\ trace = << >>
    /\ returned = << >>
    /\ calls = NoCalls
    /\ slept = NoSleep
    /\ readyAfter = NoSleep
    /\ err = "none"
    /\ last = NoCmd
    /\ atStart = [cache |-> FALSE, dump |-> FALSE]
    /\ runs = 0
    /\ history = << >>

----------------------------------------------------------------------------
(* A process is started: lines 14-21 and 188-189. *)

main ==
    /\ pc \in {"idle", "ready", "error"}
    /\ runs < MaxRuns
    /\ DBDUMP_URL' = DBDUMP_URL
    /\ dbdump_url' = DBDUMP_URL
    /\ runs' = runs + 1
    /\ history' = IF pc = "idle" THEN history ELSE Append(history, Summary)
    /\ atStart' = [cache |-> exists(cache_fp(DBDUMP_URL)),
                   dump  |-> exists(dump_fp(DBDUMP_URL))]
    /\ pc' = "cache_check"
    /\ path' = "none"
    /\ trace' = << >>
    /\ returned' = << >>
    /\ calls' = NoCalls
    /\ slept' = NoSleep
    /\ readyAfter' = NoSleep
    /\ err' = "none"
    /\ last' = NoCmd
    /\ UNCHANGED world

\* A process whose environment variable DBDUMP_URL is env (lines 14-21) and
\* in which start_services is called with arg (line 159).
process(env, arg) ==
    /\ pc \in {"idle", "ready", "error"}
    /\ runs < MaxRuns
    /\ DBDUMP_URL' = env
    /\ dbdump_url' = arg
    /\ runs' = runs + 1
    /\ history' = IF pc = "idle" THEN history ELSE Append(history, Summary)
    /\ atStart' = [cache |-> exists(cache_fp(arg)), dump |-> exists(dump_fp(arg))]
    /\ pc' = "cache_check"
    /\ path' = "none"
    /\ trace' = << >>
    /\ returned' = << >>
    /\ calls' = NoCalls
    /\ slept' = NoSleep
    /\ readyAfter' = NoSleep
    /\ err' = "none"
    /\ last' = NoCmd
    /\ UNCHANGED world

\* `python start_dhis2.py` with or without DBDUMP_URL in the environment, lines
\* 15-18 and 188-189: the first process runs with the default locator, each
\* later one with a locator of its own.
main_env ==
    \E u \in Locators :
        /\ runs = 0 => u = DefaultUrl
        /\ process(u, u)

\* `import start_dhis2; start_dhis2.start_services(u)` in a process whose
\* environment names the locator e: the parameter of line 159 is the caller's.
call_start_services == \E e \in Locators : \E u \in Locators : process(e, u)

(* start_services, lines 161-165 and 169: the cache check. *)

\* Mutant: the fresh import starts without fetching the dump.
start_services_no_download ==
    /\ pc = "cache_check"
    /\ IF exists(cache_fp(dbdump_url))
         THEN path' = "hit" /\ pc' = "restore_volume"
         ELSE path' = "miss" /\ pc' = "db_down"
    /\ UNCHANGED <<world, conf, trace, returned, calls, slept, readyAfter, err, last>>

start_services ==
    /\ pc = "cache_check"
    /\ IF exists(cache_fp(dbdump_url))
         THEN path' = "hit" /\ pc' = "restore_volume"
         ELSE path' = "miss" /\ pc' = "download_dump"
    /\ UNCHANGED <<world, conf, trace, returned, calls, slept, readyAfter, err, last>>

----------------------------------------------------------------------------
(* Cache-hit branch: restore_from_cache, lines 39-58, and line 168. *)

\* restore_from_cache, line 41.
restore_from_cache_volume ==
    /\ pc = "restore_volume"
    /\ invoke("restore_from_cache")
    /\ \E ok \in BOOLEAN :
         /\ run("volume_create", ok)
         /\ IF ok
              THEN /\ vol' = volume_create(postgres_volume_name(dbdump_url))
                   /\ pc' = "restore_extract"
                   /\ err' = err
              ELSE /\ raise("CalledProcessError")
                   /\ vol' = vol
    /\ UNCHANGED <<files, dirs, dbVolume, appUp, conf, path, returned, slept,
                   readyAfter>>

\* Mutant: a failed extraction is swallowed and the run falls back to the
\* fresh import.
restore_from_cache_extract_fallback ==
    /\ pc = "restore_extract"
    /\ \E ok \in BOOLEAN :
         /\ run("tar_xzf", ok)
         /\ IF ok
              THEN /\ vol' = [vol EXCEPT ![postgres_volume_name(dbdump_url)] = "data"]
                   /\ return("restore_from_cache")
                   /\ pc' = "hit_up"
              ELSE /\ vol' = [vol EXCEPT ![postgres_volume_name(dbdump_url)] = "partial"]
                   /\ returned' = returned
                   /\ pc' = "download_dump"
    /\ UNCHANGED <<files, dirs, dbVolume, appUp, conf, path, trace, slept,
                   readyAfter, err>>

\* restore_from_cache, lines 42-58.
restore_from_cache_extract ==
    /\ pc = "restore_extract"
    /\ \E ok \in BOOLEAN :
         /\ run("tar_xzf", ok)
         /\ IF ok
              THEN /\ vol' = [vol EXCEPT ![postgres_volume_name(dbdump_url)] = "data"]
                   /\ return("restore_from_cache")
                   /\ pc' = "hit_up"
                   /\ err' = err
              ELSE /\ raise("CalledProcessError")
                   /\ returned' = returned
                   /\ \E left \in {vol[postgres_volume_name(dbdump_url)], "partial"} :
                        vol' = [vol EXCEPT ![postgres_volume_name(dbdump_url)] = left]
    /\ UNCHANGED <<files, dirs, dbVolume, appUp, conf, path, trace, slept,
                   readyAfter>>

\* run(["docker", "compose", "up", "-d"]): lines 168 and 180.
compose_up(next) ==
    /\ invoke("compose_up")
    /\ \E ok \in BOOLEAN :
         /\ run("compose_up", ok)
         /\ IF ok
              THEN /\ dbVolume' = compose_db_volume
                   /\ vol' = db_started(compose_db_volume)
                   /\ appUp' = TRUE
                   /\ return("compose_up")
                   /\ pc' = next
                   /\ err' = err
              ELSE /\ raise("CalledProcessError")
                   /\ UNCHANGED <<dbVolume, vol, appUp, returned>>
    /\ UNCHANGED <<files, dirs, conf, path, slept, readyAfter>>

\* Mutant: no else at line 169, the restored run goes on into the fresh import.
compose_up_hit_falls_through ==
    /\ pc = "hit_up"
    /\ compose_up("download_dump")

\* start_services, line 168.
compose_up_hit ==
    /\ pc = "hit_up"
    /\ compose_up("up_all")

\* start_services, line 180.
compose_up_all ==
    /\ pc = "up_all"
    /\ compose_up("app_poll")

----------------------------------------------------------------------------
(* Cache-miss branch *)

\* Mutant: the existence check looks at the directory made at line 63.
download_dump_checks_dir ==
    /\ pc = "download_dump"
    /\ invoke("download_dump")
    /\ dirs' = dirs \cup {dbdump_dir(dbdump_url)}
    /\ dbdump_dir(dbdump_url) \in dirs'
    /\ return("download_dump")
    /\ pc' = "db_down"
    /\ UNCHANGED <<files, calls, last, err>>
    /\ UNCHANGED <<vol, dbVolume, appUp, conf, path, slept, readyAfter>>

\* Mutant: no existence check, the dump is fetched on every call.
download_dump_always ==
    /\ pc = "download_dump"
    /\ invoke("download_dump")
    /\ dirs' = dirs \cup {dbdump_dir(dbdump_url)}
    /\ \E ok \in BOOLEAN :
         /\ run("wget", ok)
         /\ IF ok
              THEN /\ files' = [files EXCEPT ![dump_fp(dbdump_url)] = "complete"]
                   /\ return("download_dump")
                   /\ pc' = "db_down"
                   /\ err' = err
              ELSE /\ raise("CalledProcessError")
                   /\ returned' = returned
                   /\ \E left \in {"absent", "partial"} :
                        files' = [files EXCEPT ![dump_fp(dbdump_url)] = left]
    /\ UNCHANGED <<vol, dbVolume, appUp, conf, path, slept, readyAfter>>

\* download_dump, lines 61-69.  A failed wget -O may leave its output file.
download_dump ==
    /\ pc = "download_dump"
    /\ invoke("download_dump")
    /\ dirs' = dirs \cup {dbdump_dir(dbdump_url)}
    /\ IF exists(dump_fp(dbdump_url))
         THEN /\ return("download_dump")
              /\ pc' = "db_down"
              /\ UNCHANGED <<files, calls, last, err>>
         ELSE \E ok \in BOOLEAN :
                /\ run("wget", ok)
                /\ IF ok
                     THEN /\ files' = [files EXCEPT ![dump_fp(dbdump_url)] = "complete"]
                          /\ return("download_dump")
                          /\ pc' = "db_down"
                          /\ err' = err
                     ELSE /\ raise("CalledProcessError")
                          /\ returned' = returned
                          /\ \E left \in {"absent", "partial"} :
                               files' = [files EXCEPT ![dump_fp(dbdump_url)] = left]
    /\ UNCHANGED <<vol, dbVolume, appUp, conf, path, slept, readyAfter>>

\* Mutant: start_db without the teardown of line 74.
start_db_down_omitted ==
    /\ pc = "db_down"
    /\ invoke("start_db")
    /\ pc' = "db_volume"
    /\ UNCHANGED <<world, conf, path, returned, calls, last, err, slept, readyAfter>>

\* start_db, line 74.
start_db_down ==
    /\ pc = "db_down"
    /\ invoke("start_db")
    /\ \E ok \in BOOLEAN :
         /\ run("compose_down", ok)
         /\ IF ok
              THEN /\ dbVolume' = "none"
                   /\ appUp' = FALSE
                   /\ vol' = compose_down_v
                   /\ pc' = "db_volume"
                   /\ err' = err
              ELSE /\ raise("CalledProcessError")
                   /\ UNCHANGED <<dbVolume, appUp, vol>>
    /\ UNCHANGED <<files, dirs, conf, path, returned, slept, readyAfter>>

\* start_db, line 75.
start_db_volume ==
    /\ pc = "db_volume"
    /\ \E ok \in BOOLEAN :
         /\ run("volume_create", ok)
         /\ IF ok
              THEN /\ vol' = volume_create(postgres_volume_name(dbdump_url))
                   /\ pc' = "db_up"
                   /\ err' = err
              ELSE /\ raise("CalledProcessError")
                   /\ vol' = vol
    /\ UNCHANGED <<files, dirs, dbVolume, appUp, conf, path, trace, returned,
                   slept, readyAfter>>

\* start_db, line 76.
start_db_up ==
    /\ pc = "db_up"
    /\ \E ok \in BOOLEAN :
         /\ run("compose_up_db", ok)
         /\ IF ok
              THEN /\ dbVolume' = compose_db_volume
                   /\ vol' = db_started(compose_db_volume)
                   /\ pc' = "db_poll"
                   /\ err' = err
              ELSE /\ raise("CalledProcessError")
                   /\ UNCHANGED <<dbVolume, vol>>
    /\ UNCHANGED <<files, dirs, appUp, conf, path, trace, returned, slept,
                   readyAfter>>

\* start_db once range(360) is used up, lines 78-96: the loop has no else
\* branch and nothing follows it, so the function returns.
start_db_exhausted ==
    /\ return("start_db")
    /\ pc' = "import_ps"
    /\ err' = err

\* start_db, lines 78-96: one iteration of the liveness loop.
start_db_poll ==
    /\ pc = "db_poll"
    /\ \E k \in Environment("start_db", "pg_isready", range_start_db) :
         LET n   == calls["pg_isready"] + 1
             ok  == check_succeeds(n, k)
             res == for_range(n, ok, range_start_db)
         IN  /\ run("pg_isready", ok)
             /\ readyAfter' = [readyAfter EXCEPT !["start_db"] = k]
             /\ CASE res = "done" ->
                       /\ return("start_db")
                       /\ pc' = "import_ps"
                       /\ UNCHANGED <<slept, err>>
                  [] res = "again" ->
                       /\ sleep("start_db")
                       /\ UNCHANGED <<pc, returned, err>>
                  [] res = "exhausted" ->
                       /\ sleep("start_db")
                       /\ start_db_exhausted
    /\ UNCHANGED <<world, conf, path, trace>>

\* wait_for_import, lines 101-107.
wait_for_import_ps ==
    /\ pc = "import_ps"
    /\ invoke("wait_for_import")
    /\ \E ok \in BOOLEAN :
         /\ run("compose_ps", ok)
         /\ IF ok
              THEN \E container_id \in {"", "cid"} :
                     IF container_id = ""
                       THEN raise("RuntimeError: DB container not found")
                       ELSE pc' = "import_poll" /\ err' = err
              ELSE raise("CalledProcessError")
    /\ UNCHANGED <<world, conf, path, returned, slept, readyAfter>>

\* Mutant: the raise after the loop is missing, as it is in start_db.
wait_for_import_exhausted_returns ==
    /\ return("wait_for_import")
    /\ pc' = "cache_stop"
    /\ err' = err

\* wait_for_import, line 119.
wait_for_import_exhausted ==
    /\ raise("RuntimeError: Database import did not complete in time")
    /\ returned' = returned

\* wait_for_import, lines 109-119: one iteration of the log poll.
wait_for_import_poll ==
    /\ pc = "import_poll"
    /\ \E k \in Environment("wait_for_import", "docker_logs", range_wait_for_import) :
         /\ readyAfter' = [readyAfter EXCEPT !["wait_for_import"] = k]
         /\ \E ok \in BOOLEAN :
              /\ run("docker_logs", ok)
              /\ IF ok
                   THEN LET n   == calls["docker_logs"] + 1
                            p   == docker_logs(n, k)
                            res == for_range(n, contains(p.stderr, Marker),
                                             range_wait_for_import)
                        IN  CASE res = "done" ->
                                   /\ return("wait_for_import")
                                   /\ pc' = "cache_stop"
                                   /\ UNCHANGED <<slept, err>>
                              [] res = "again" ->
                                   /\ sleep("wait_for_import")
                                   /\ UNCHANGED <<pc, returned, err>>
                              [] res = "exhausted" ->
                                   /\ sleep("wait_for_import")
                                   /\ wait_for_import_exhausted
                   ELSE /\ raise("CalledProcessError")
                        /\ UNCHANGED <<slept, returned>>
    /\ UNCHANGED <<world, conf, path, trace>>

\* Mutant: cache_db goes on to the archiving helper without the stop of line 124.
cache_db_stop_omitted ==
    /\ pc = "cache_stop"
    /\ invoke("cache_db")
    /\ pc' = "cache_archive"
    /\ UNCHANGED <<world, conf, path, returned, calls, last, err, slept, readyAfter>>

\* cache_db, line 124.
cache_db_stop ==
    /\ pc = "cache_stop"
    /\ invoke("cache_db")
    /\ \E ok \in BOOLEAN :
         /\ run("compose_stop_db", ok)
         /\ IF ok
              THEN /\ dbVolume' = "none"
                   /\ pc' = "cache_archive"
                   /\ err' = err
              ELSE /\ raise("CalledProcessError")
                   /\ dbVolume' = dbVolume
    /\ UNCHANGED <<files, dirs, vol, appUp, conf, path, returned, slept,
                   readyAfter>>

\* Mutant: the helper is given a mount that does not make a missing host
\* directory.
bind_mount_existing(d) == dirs

\* `-v <host directory>:/cache` of docker run, lines 132-133: a host
\* directory that does not exist is made by docker before the container starts.
bind_mount(d) == dirs \cup {d}

\* Mutant: the archive is written inside the helper container, not under the
\* mounted cache directory.
cache_db_archive_unmounted ==
    /\ pc = "cache_archive"
    /\ \E ok \in BOOLEAN :
         /\ run("tar_czf", ok)
         /\ IF ok
              THEN /\ return("cache_db")
                   /\ pc' = "up_all"
                   /\ err' = err
              ELSE /\ raise("CalledProcessError")
                   /\ returned' = returned
    /\ UNCHANGED <<files, dirs, vol, dbVolume, appUp, conf, path, trace, slept,
                   readyAfter>>

\* cache_db, lines 125-142: the bind mount creates ./cache, tar writes the
\* archive; a failed tar may leave a part of it.
cache_db_archive ==
    /\ pc = "cache_archive"
    /\ \E ok \in BOOLEAN :
         /\ run("tar_czf", ok)
         /\ IF ok
              THEN /\ files' = [files EXCEPT ![cache_fp(dbdump_url)] = "complete"]
                   /\ dirs' = bind_mount(cache_dir)
                   /\ return("cache_db")
                   /\ pc' = "up_all"
                   /\ err' = err
              ELSE /\ raise("CalledProcessError")
                   /\ returned' = returned
                   /\ \E left \in {"absent", "partial"} :
                        /\ files' = [files EXCEPT ![cache_fp(dbdump_url)] = left]
                        /\ dirs' \in {dirs, bind_mount(cache_dir)}
                        /\ left = "partial" => cache_dir \in dirs'
    /\ UNCHANGED <<vol, dbVolume, appUp, conf, path, trace, slept, readyAfter>>

----------------------------------------------------------------------------
(* wait_for_dhis2, lines 145-156 *)

\* Mutant: the raise after the loop is missing, the function returns.
wait_for_dhis2_exhausted_returns ==
    /\ return("wait_for_dhis2")
    /\ pc' = "ready"
    /\ err' = err

\* wait_for_dhis2, line 156.
wait_for_dhis2_exhausted ==
    /\ raise("RuntimeError: DHIS2 did not start in time")
    /\ returned' = returned

\* One iteration of the loop of lines 149-155; the first one enters the function.
wait_for_dhis2 ==
    /\ pc = "app_poll"
    /\ trace' = IF calls["http_get"] = 0 THEN Append(trace, "wait_for_dhis2") ELSE trace
    /\ \E k \in Environment("wait_for_dhis2", "http_get", range_wait_for_dhis2) :
         LET n   == calls["http_get"] + 1
             ok  == check_succeeds(n, k)
             res == for_range(n, ok, range_wait_for_dhis2)
         IN  /\ run("http_get", ok)
             /\ readyAfter' = [readyAfter EXCEPT !["wait_for_dhis2"] = k]
             /\ CASE res = "done" ->
                       /\ return("wait_for_dhis2")
                       /\ pc' = "ready"
                       /\ UNCHANGED <<slept, err>>
                  [] res = "again" ->
                       /\ sleep("wait_for_dhis2")
                       /\ UNCHANGED <<pc, returned, err>>
                  [] res = "exhausted" ->
                       /\ sleep("wait_for_dhis2")
                       /\ wait_for_dhis2_exhausted
    /\ UNCHANGED <<world, conf, path>>

----------------------------------------------------------------------------

Next ==
    \/ main
    \/ start_services
    \/ restore_from_cache_volume
    \/ restore_from_cache_extract
    \/ compose_up_hit
    \/ download_dump
    \/ start_db_down
    \/ start_db_volume
    \/ start_db_up
    \/ start_db_poll
    \/ wait_for_import_ps
    \/ wait_for_import_poll
    \/ cache_db_stop
    \/ cache_db_archive
    \/ compose_up_all
    \/ wait_for_dhis2

Spec == Init /\ [][Next]_vars


\* Runs whose locator differs from run to run.
NextKeys ==
    \/ main_env
    \/ start_services
    \/ restore_from_cache_volume
    \/ restore_from_cache_extract
    \/ compose_up_hit
    \/ download_dump
    \/ start_db_down
    \/ start_db_volume
    \/ start_db_up
    \/ start_db_poll
    \/ wait_for_import_ps
    \/ wait_for_import_poll
    \/ cache_db_stop
    \/ cache_db_archive
    \/ compose_up_all
    \/ wait_for_dhis2

SpecKeys == Init /\ [][NextKeys]_vars


\* A step of the running process.
Step ==
    \/ start_services
    \/ restore_from_cache_volume
    \/ restore_from_cache_extract
    \/ compose_up_hit
    \/ download_dump
    \/ start_db_down
    \/ start_db_volume
    \/ start_db_up
    \/ start_db_poll
    \/ wait_for_import_ps
    \/ wait_for_import_poll
    \/ cache_db_stop
    \/ cache_db_archive
    \/ compose_up_all
    \/ wait_for_dhis2

\* Every call made by the single thread of the process is blocking and returns,
\* after which the interpreter goes on to the next statement: a started run is
\* not left standing.  Whether another process is started is left open.
FairSpec == Spec /\ WF_vars(Step)


\* Runs in which start_services is called with a locator of the caller's choice.
NextCall ==
    \/ call_start_services
    \/ start_services
    \/ restore_from_cache_volume
    \/ restore_from_cache_extract
    \/ compose_up_hit
    \/ download_dump
    \/ start_db_down
    \/ start_db_volume
    \/ start_db_up
    \/ start_db_poll
    \/ wait_for_import_ps
    \/ wait_for_import_poll
    \/ cache_db_stop
    \/ cache_db_archive
    \/ compose_up_all
    \/ wait_for_dhis2

SpecCall == Init /\ [][NextCall]_vars

TypeOK ==
    /\ files \in [Paths -> {"absent", "partial", "complete"}]
    /\ vol \in [Volumes -> {"absent", "empty", "partial", "data"}]
    /\ dbVolume \in Volumes \cup {"none"}
    /\ pc \in {"idle", "cache_check", "restore_volume", "restore_extract", "hit_up",
               "download_dump", "db_down", "db_volume", "db_up", "db_poll",
               "import_ps", "import_poll", "cache_stop", "cache_archive", "up_all",
               "app_poll", "ready", "error"}
    /\ runs \in 0..MaxRuns

----------------------------------------------------------------------------
(* Vocabulary of the properties *)

Range(seq) == {seq[i] : i \in DOMAIN seq}

IsPrefix(a, b) == Len(a) <= Len(b) /\ \A i \in DOMAIN a : a[i] = b[i]

Count(seq, x) == Cardinality({i \in DOMAIN seq : seq[i] = x})

MissTrace == <<"download_dump", "start_db", "wait_for_import", "cache_db",
               "compose_up", "wait_for_dhis2">>

HitTrace == <<"restore_from_cache", "compose_up", "compose_up", "wait_for_dhis2">>

MissOnlyCmds == {"wget", "compose_down", "compose_up_db", "pg_isready",
                 "compose_ps", "docker_logs", "compose_stop_db", "tar_czf"}

PollCmd(p) ==
    CASE p = "start_db" -> "pg_isready"
      [] p = "wait_for_import" -> "docker_logs"
      [] p = "wait_for_dhis2" -> "http_get"

Finished == pc \in {"ready", "error"}

----------------------------------------------------------------------------
(* Properties *)

\* C1: on the cache-miss branch the steps are invoked in the order
\* download_dump, start_db, wait_for_import, cache_db, full-stack start,
\* wait_for_dhis2, each only after the one before it has returned, and a run
\* that reaches Ready has gone through all six of them.
C1_CacheMissOrder ==
    path = "miss" =>
        /\ IsPrefix(trace, MissTrace)
        /\ IsPrefix(returned, trace)
        /\ Len(trace) <= Len(returned) + 1
        /\ pc = "ready" => returned = MissTrace

C1_Witness == pc = "ready" /\ path = "miss" /\ trace = MissTrace

\* C2: on the cache-hit branch none of download_dump, start_db,
\* wait_for_import, cache_db is invoked, nor any of their commands; what comes
\* before wait_for_dhis2 is restore_from_cache and then the full-stack start,
\* which start_services issues at line 168 and again at line 180.
C2_CacheHitSkip ==
    path = "hit" =>
        /\ \A c \in MissOnlyCmds : calls[c] = 0
        /\ Range(trace) \cap {"download_dump", "start_db", "wait_for_import",
                              "cache_db"} = {}
        /\ IsPrefix(trace, HitTrace)
        /\ IsPrefix(returned, trace)
        /\ Len(trace) <= Len(returned) + 1

C2_Witness == pc = "ready" /\ path = "hit" /\ atStart.cache

\* C3: a poll whose check fails K < 360 times and then succeeds returns after
\* exactly K + 1 checks and K sleeps of 3 seconds, one after each failed check,
\* and makes no check after the successful one.
C3_PollSucceedsAfterK ==
    \A p \in Polls :
        LET c == PollCmd(p)
            K == readyAfter[p]
        IN  (calls[c] > 0 /\ K < 360) =>
                /\ calls[c] <= K + 1
                /\ p \in Range(returned) => calls[c] = K + 1 /\ slept[p] = 3 * K
                /\ (p \notin Range(returned) /\ ~Finished) =>
                       calls[c] <= K /\ slept[p] = 3 * calls[c]
                /\ (calls[c] = K + 1 /\ last.ok) => p \in Range(returned)

C3_Witness ==
    /\ pc = "ready"
    /\ \A p \in Polls : readyAfter[p] = 359 /\ calls[PollCmd(p)] = 360

\* C4: when pg_isready fails on all 360 attempts, start_db does not return
\* normally and none of wait_for_import, cache_db, full-stack start is invoked.
C4_DbTimeoutAborts ==
    (readyAfter["start_db"] >= 360 /\ calls["pg_isready"] = 360) =>
        /\ "start_db" \notin Range(returned)
        /\ Range(trace) \cap {"wait_for_import", "cache_db", "compose_up"} = {}

ImportTimeout == "RuntimeError: Database import did not complete in time"
Dhis2Timeout  == "RuntimeError: DHIS2 did not start in time"

\* C5: when the check of wait_for_import or of wait_for_dhis2 never succeeds,
\* the poll raises its timeout error after exactly 360 checks; it never returns,
\* the run ends in error, and no step is invoked after the poll.
C5_PollTimeouts ==
    /\ \A p \in {"wait_for_import", "wait_for_dhis2"} :
         LET c == PollCmd(p)
             e == IF p = "wait_for_import" THEN ImportTimeout ELSE Dhis2Timeout
             polling == IF p = "wait_for_import" THEN "import_poll" ELSE "app_poll"
         IN  /\ (calls[c] > 0 /\ readyAfter[p] >= 360) =>
                   /\ p \notin Range(returned)
                   /\ trace[Len(trace)] = p
                   /\ pc \in {polling, "error"}
                   /\ calls[c] <= 360
                   /\ calls[c] = 360 => pc = "error"
                   /\ (pc = "error" /\ (last.ok \/ c = "http_get")) => err = e
             /\ err = e =>
                   /\ calls[c] = 360
                   /\ slept[p] = 3 * 360
                   /\ readyAfter[p] >= 360
                   /\ pc = "error"
                   /\ trace[Len(trace)] = p

C5_Witness ==
    /\ err = Dhis2Timeout
    /\ Len(history) = 1
    /\ history[1].err = ImportTimeout

\* The step of start_services that issues a command (polls' checks aside).
StepsOf(cmd) ==
    CASE cmd \in {"tar_xzf"} -> {"restore_from_cache"}
      [] cmd = "volume_create" -> {"restore_from_cache", "start_db"}
      [] cmd = "compose_up" -> {"compose_up"}
      [] cmd = "wget" -> {"download_dump"}
      [] cmd \in {"compose_down", "compose_up_db"} -> {"start_db"}
      [] cmd \in {"compose_ps", "docker_logs"} -> {"wait_for_import"}
      [] cmd \in {"compose_stop_db", "tar_czf"} -> {"cache_db"}
      [] OTHER -> {}

\* C6: once a command other than the checks of start_db and wait_for_dhis2 has
\* exited non-zero, the run has ended with CalledProcessError in the step that
\* issued it: that step has not returned and no step was invoked after it; a
\* failed extraction is followed by neither download_dump nor start_db.
C6_CommandFailureAborts ==
    (~last.ok /\ last.cmd \notin {"pg_isready", "http_get"}) =>
        /\ pc = "error"
        /\ err = "CalledProcessError"
        /\ trace[Len(trace)] \in StepsOf(last.cmd)
        /\ Len(returned) = Len(trace) - 1
        /\ last.cmd = "tar_xzf" =>
               /\ trace = <<"restore_from_cache">>
               /\ \A c \in MissOnlyCmds : calls[c] = 0

C6_Witness ==
    /\ last = [cmd |-> "tar_xzf", ok |-> FALSE]
    /\ pc = "error"
    /\ Len(history) = 1
    /\ history[1].err = "CalledProcessError"
    /\ history[1].last = "cache_db"

ContainerNotFound == "RuntimeError: DB container not found"

\* The scenario of C7: neither archive nor dump at process start, pg_isready
\* first succeeds on its 4th attempt, the marker shows on the 2nd log poll.
C7_Scenario ==
    /\ atStart = [cache |-> FALSE, dump |-> FALSE]
    /\ calls["pg_isready"] > 0
    /\ readyAfter["start_db"] = 3
    /\ calls["docker_logs"] > 0
    /\ readyAfter["wait_for_import"] = 1

\* C7: in that scenario a run in which no command fails and the application
\* answers within its poll ends in Ready, and a run that ends in Ready has
\* invoked wget exactly once and cache_db exactly once.
C7_EndToEnd ==
    C7_Scenario =>
        /\ pc = "error" =>
               \/ err \in {"CalledProcessError", ContainerNotFound}
               \/ err = Dhis2Timeout /\ readyAfter["wait_for_dhis2"] >= 360
        /\ pc = "ready" =>
               /\ calls["wget"] = 1
               /\ Count(trace, "cache_db") = 1
               /\ calls["compose_stop_db"] = 1
               /\ calls["tar_czf"] = 1
               /\ calls["pg_isready"] = 4
               /\ calls["docker_logs"] = 2

C7_Witness == C7_Scenario /\ pc = "ready" /\ runs = 1

\* An earlier run with the locator of this one took the cache-miss branch and
\* reached Ready.
EarlierMissReady(i) ==
    /\ history[i].url = dbdump_url
    /\ history[i].path = "miss"
    /\ history[i].outcome = "ready"

\* C8: after a cache-miss run that reached Ready, every later run with the same
\* locator finds the archive, takes the cache-hit branch on the same cache file
\* and volume name, and invokes neither wget nor the log poll nor cache_db.
C8_LaterRunsHit ==
    \A i \in DOMAIN history :
        EarlierMissReady(i) =>
            /\ atStart.cache
            /\ pc # "cache_check" => path = "hit"
            /\ history[i].cache = cache_fp(dbdump_url)
            /\ history[i].volume = postgres_volume_name(dbdump_url)
            /\ files[history[i].cache] = "complete"
            /\ calls["wget"] = 0 /\ calls["docker_logs"] = 0 /\ calls["tar_czf"] = 0
            /\ Range(trace) \cap {"download_dump", "wait_for_import", "cache_db"} = {}

C8_Witness ==
    /\ \E i \in DOMAIN history : EarlierMissReady(i)
    /\ pc = "ready"
    /\ path = "hit"

\* The run before this one, with the same locator, ended in an error before
\* cache_db was invoked.
AbortedBeforeCaching ==
    /\ history # << >>
    /\ LET h == history[Len(history)]
       IN  /\ h.url = dbdump_url
           /\ h.outcome = "error"
           /\ h.path = "miss"
           /\ h.last \in {"download_dump", "start_db", "wait_for_import"}

\* What the run after one aborted before cache_db finds, the dump aside: no
\* archive, hence the cache-miss branch, and at the moment start_db is about to
\* start the db service no service up and a new, empty volume.
RerunCleanSlate ==
    /\ (path = "miss" /\ "cache_db" \notin Range(trace)) =>
           ~exists(cache_fp(dbdump_url))
    /\ AbortedBeforeCaching =>
           /\ ~atStart.cache
           /\ pc # "cache_check" => path = "miss"
           /\ IsPrefix(trace, MissTrace)
           /\ pc = "db_up" =>
                  /\ dbVolume = "none"
                  /\ ~appUp
                  /\ vol[postgres_volume_name(dbdump_url)] = "empty"

\* C9: a run aborted before cache_db leaves no archive, the run after it takes
\* the cache-miss branch, and nothing the aborted run left behind reaches the
\* stages of that run: the teardown gives start_db a clean slate, and the dump
\* that download_dump hands to the import is a completed download.
C9_RerunAfterAbort ==
    /\ RerunCleanSlate
    /\ AbortedBeforeCaching =>
           ("download_dump" \in Range(returned) =>
                files[dump_fp(dbdump_url)] = "complete")

\* An earlier run with the locator of this one called download_dump and the
\* call returned.
EarlierDownloadReturned(i) ==
    /\ history[i].url = dbdump_url
    /\ history[i].path = "miss"
    /\ ~(history[i].outcome = "error" /\ history[i].last = "download_dump")

\* C10: once a call of download_dump has returned, a later call with the same
\* arguments returns the same path without invoking wget; a single call
\* invokes wget at most once.
C10_DownloadOnce ==
    /\ calls["wget"] <= 1
    /\ \A i \in DOMAIN history :
         EarlierDownloadReturned(i) =>
             /\ calls["wget"] = 0
             /\ history[i].dump = dump_fp(dbdump_url)
             /\ exists(dump_fp(dbdump_url))
             /\ "download_dump" \in Range(trace) => "download_dump" \in Range(returned)

C10_Witness ==
    /\ \E i \in DOMAIN history : EarlierDownloadReturned(i)
    /\ "download_dump" \in Range(returned)

\* C11: a run is in Ready only when, in this run, the full-stack start has
\* returned and after it wait_for_dhis2 returned on a GET of /api/system/info
\* that came back with a success status; the latest thing the run did is that
\* successful GET, never a failed one.
C11_ReadyAfterSuccessfulGet ==
    pc = "ready" =>
        /\ last = [cmd |-> "http_get", ok |-> TRUE]
        /\ calls["http_get"] = readyAfter["wait_for_dhis2"] + 1
        /\ readyAfter["wait_for_dhis2"] < range_wait_for_dhis2
        /\ Len(returned) >= 2
        /\ returned[Len(returned)] = "wait_for_dhis2"
        /\ returned[Len(returned) - 1] = "compose_up"
        /\ Count(trace, "wait_for_dhis2") = 1
        /\ appUp
        /\ err = "none"

C11_Witness ==
    /\ pc = "ready"
    /\ calls["http_get"] = range_wait_for_dhis2
    /\ slept["wait_for_dhis2"] = sleep_seconds * (range_wait_for_dhis2 - 1)

\* C12: while the archiving helper of cache_db is about to run or has just
\* run, the stop of the db service issued by this run has completed and the db
\* service is down; the full stack is started on the cache-miss branch only
\* after cache_db, and with it the helper, has returned.
C12_StopBeforeArchive ==
    /\ (pc = "cache_archive" \/ calls["tar_czf"] > 0) =>
           /\ calls["compose_stop_db"] = 1
           /\ "cache_db" \in Range(trace)
           /\ calls["tar_czf"] <= 1
    /\ pc = "cache_archive" =>
           /\ last = [cmd |-> "compose_stop_db", ok |-> TRUE]
           /\ dbVolume = "none"
           /\ calls["compose_up"] = 0
    /\ last.cmd = "tar_czf" => dbVolume = "none" /\ calls["compose_up"] = 0
    /\ (path = "miss" /\ calls["compose_up"] > 0) =>
           /\ "cache_db" \in Range(returned)
           /\ calls["tar_czf"] = 1

C12_Witness ==
    /\ path = "miss"
    /\ pc = "app_poll"
    /\ calls["tar_czf"] = 1
    /\ dbVolume = postgres_volume_name(dbdump_url)

\* The text has the marker in it.
HasMarker(text) ==
    \E i \in 1..Len(text) :
        /\ i + Len(Marker) - 1 <= Len(text)
        /\ SubSeq(text, i, i + Len(Marker) - 1) = Marker

\* C13: an attempt of wait_for_import whose `docker logs` exited zero succeeds,
\* and wait_for_import returns, when the log tail on stderr has the marker in
\* it; when the tail lacks the marker the attempt is a failed one: a sleep of
\* 3 seconds and, while range(360) lasts, the next attempt, with no error
\* raised by the attempt itself.
C13_MarkerCheck ==
    last = [cmd |-> "docker_logs", ok |-> TRUE] =>
        LET n == calls["docker_logs"]
            p == docker_logs(n, readyAfter["wait_for_import"])
        IN  /\ HasMarker(p.stderr) =>
                  /\ "wait_for_import" \in Range(returned)
                  /\ pc = "cache_stop"
                  /\ err = "none"
                  /\ slept["wait_for_import"] = sleep_seconds * (n - 1)
            /\ ~HasMarker(p.stderr) =>
                  /\ "wait_for_import" \notin Range(returned)
                  /\ slept["wait_for_import"] = sleep_seconds * n
                  /\ n < range_wait_for_import => pc = "import_poll" /\ err = "none"
                  /\ n = range_wait_for_import => pc = "error" /\ err = ImportTimeout

C13_Witness ==
    /\ last = [cmd |-> "docker_logs", ok |-> TRUE]
    /\ calls["docker_logs"] = 2
    /\ readyAfter["wait_for_import"] = 1
    /\ HasMarker(docker_logs(2, 1).stderr)
    /\ ~HasMarker(docker_logs(1, 1).stderr)
    /\ pc = "cache_stop"

\* C14: the cache directory exists whenever an archive file exists in it, and
\* once cache_db has returned on the cache-miss branch, also in a first run
\* that found no ./cache, the directory exists and the archive is complete at
\* cache_fp; a cache-miss run that reaches Ready leaves that archive.
C14_CacheDirCreated ==
    /\ \A u \in Locators : exists(cache_fp(u)) => cache_dir \in dirs
    /\ (path = "miss" /\ "cache_db" \in Range(returned)) =>
           /\ cache_dir \in dirs
           /\ files[cache_fp(dbdump_url)] = "complete"
    /\ (path = "miss" /\ "cache_db" \notin Range(trace) /\ runs = 1) =>
           cache_dir \notin dirs

C14_Witness ==
    /\ runs = 1
    /\ path = "miss"
    /\ pc = "ready"
    /\ cache_dir \in dirs
    /\ files[cache_fp(dbdump_url)] = "complete"

\* The names start_services derives from a locator.
KeyNames(u) == {cache_fp(u), dbdump_dir(u), dump_fp(u), postgres_volume_name(u)}

\* The locators of the runs so far.
RunLocators ==
    {history[i].url : i \in DOMAIN history}
        \cup (IF pc = "idle" THEN {} ELSE {dbdump_url})

\* C15: the key and the names derived from it depend on the locator alone: a
\* run uses ./cache/postgres-<key>.tar.gz, ./db-dump_<key> and
\* dhis2_<key>_postgres-data for the md5[:8] key of its locator, the same ones
\* as every earlier run with that locator; runs whose keys differ share none of
\* these names, and every file, directory and volume there is carries the key
\* of the locator of some run.
C15_KeyDerivation ==
    /\ \A i \in DOMAIN history :
         LET h == history[i]
             k == md5_hexdigest_8(h.url)
         IN  /\ h.cache = "./cache/postgres-" \o k \o ".tar.gz"
             /\ h.dump = "./db-dump_" \o k \o "/dump.sql.gz"
             /\ h.volume = "dhis2_" \o k \o "_postgres-data"
             /\ h.url = dbdump_url =>
                    /\ h.cache = cache_fp(dbdump_url)
                    /\ h.dump = dump_fp(dbdump_url)
                    /\ h.volume = postgres_volume_name(dbdump_url)
             /\ k # md5_hexdigest_8(dbdump_url) =>
                    {h.cache, h.dump, h.volume} \cap KeyNames(dbdump_url) = {}
    /\ \A u1, u2 \in Locators :
         md5_hexdigest_8(u1) # md5_hexdigest_8(u2) => KeyNames(u1) \cap KeyNames(u2) = {}
    /\ \A p \in Paths :
         exists(p) => \E u \in RunLocators : p \in {cache_fp(u), dump_fp(u)}
    /\ \A v \in Volumes :
         vol[v] # "absent" => \E u \in RunLocators : v = postgres_volume_name(u)
    /\ dirs \subseteq {cache_dir} \cup {dbdump_dir(u) : u \in RunLocators}

\* A run of one locator after a run of the other: each has its own archive, and
\* the second one took the cache-miss branch although an archive existed.
C15_Witness ==
    /\ Len(history) = 1
    /\ history[1].url # dbdump_url
    /\ history[1].outcome = "ready"
    /\ pc = "ready"
    /\ path = "miss"
    /\ \A u \in Locators : files[cache_fp(u)] = "complete"

\* A run is under way.
Running == pc \notin {"idle", "ready", "error"}

\* C16: every started run ends, in Ready or in an error; within a run each of
\* the three polls makes at most 360 checks and is entered at most once.
C16_Terminates ==
    /\ [](\A p \in Polls :
            /\ calls[PollCmd(p)] <= 360
            /\ Count(trace, p) <= 1
            /\ slept[p] <= 3 * 360)
    /\ (Running ~> Finished)

\* A run that ended after using up two polls, 360 checks each, and leaving the
\* third after 360.
C16_Witness ==
    /\ Finished
    /\ calls["pg_isready"] = 360
    /\ calls["docker_logs"] = 360
    /\ calls["http_get"] = 360
    /\ \A p \in Polls : Count(trace, p) = 1

\* An earlier run with the locator of this one in which cache_db returned: its
\* archiving helper exited zero.
EarlierArchived(i) ==
    /\ history[i].url = dbdump_url
    /\ history[i].path = "miss"
    /\ history[i].last \in {"compose_up", "wait_for_dhis2"}

\* C17: a run takes the cache-hit branch only on an archive that a cache_db of
\* an earlier run with the same locator wrote to the end, its helper exiting
\* zero; what a run that failed inside cache_db leaves is not taken for a hit.
C17_HitOnlyOnCompletedArchive ==
    path = "hit" =>
        /\ files[cache_fp(dbdump_url)] = "complete"
        /\ \E i \in DOMAIN history : EarlierArchived(i)

\* C18: when a helper that reads or writes the storage volume is about to run,
\* the extraction of restore_from_cache or the archiving of cache_db, no db
\* service is running on that volume, also not the one of an earlier run.
C18_NoHelperOnLiveVolume ==
    pc \in {"restore_extract", "cache_archive"} =>
        dbVolume # postgres_volume_name(dbdump_url)

\* C19: when download_dump has returned without invoking wget, the dump file it
\* found is a completed download, written by the wget of an earlier run that
\* exited zero; what a failed wget leaves makes no later run skip the download.
C19_SkipOnlyCompletedDownload ==
    ("download_dump" \in Range(returned) /\ calls["wget"] = 0) =>
        /\ files[dump_fp(dbdump_url)] = "complete"
        /\ \E i \in DOMAIN history : EarlierDownloadReturned(i)

\* C20: in every run the locator and the key that run() hands to the commands
\* are the ones start_services was called with and derived its names from, and
\* a db service started by the run is on the volume of that key, the one the
\* run creates or restores.
C20_EnvMatchesRun ==
    pc # "idle" =>
        /\ run_env.DBDUMP_URL = dbdump_url
        /\ run_env.DBDUMP_HASH = md5_hexdigest_8(dbdump_url)
        /\ (last.cmd \in {"compose_up", "compose_up_db"} /\ last.ok) =>
               dbVolume = postgres_volume_name(dbdump_url)

====
